---- MODULE Spec2Model ----
(***************************************************************************)
(* State-machine model of the Hostex <-> Matrix bridge                      *)
(* (keithah/hostex-bridge-go): the polling loop, the room-ensure and        *)
(* backfill logic of a Portal, the inbound relay, the management commands   *)
(* and the SQLite-backed store.                                             *)
(*                                                                          *)
(* Identifiers are opaque strings, as in the code.  Time is counted in      *)
(* ticks, Res ticks to a second, so that time.Time.Unix() (whole seconds)   *)
(* is a real conversion.                                                    *)
(***************************************************************************)
EXTENDS Integers, Sequences, FiniteSets, TLC

\* ------------------------------------------------------------------ bounds
MaxTime == 2        \* the clock stops advancing at this tick
Res == 2            \* ticks per second
MaxMsgs == 2        \* messages the remote service ever holds
MaxRooms == 3       \* rooms the homeserver ever creates
MaxEvents == 3      \* events of the homeserver timeline
MaxEventsLong == 6  \* the same for a bridge that has been running a while
MaxRuns == 1        \* process restarts
MaxSync == 1        \* goroutines spawned by !sync that are alive at once

\* ------------------------------------------------------- program constants
PageSize == 10      \* limit passed to GetMessages

\* ------------------------------------------------------------- identifiers
\* RoomIDs are handed out by the homeserver, conversation ids by the remote
\* service; both are plain strings to the bridge.  The second conversation
\* id is a string the homeserver also uses as a room id: the registry lookup
\* of handleMatrixMessage compares the two kinds of string.
RoomID(i) == "!r" \o ToString(i)
ConvList == <<"c1", "!r3">>
ConvIDs == {ConvList[i] : i \in 1..Len(ConvList)}
Admin == "@admin"
Guest == "@guest"
Bot == "@bot"
NoRoom == ""

VARIABLES
  now,            \* wall clock, in ticks
  remote,         \* remote service: the messages it holds, in order
  hsRooms,        \* homeserver: the rooms created so far
  hsEvents,       \* homeserver: the timeline of message events
  dbPortal,       \* table portal: hostex_id -> matrix_room_id
  dbMessage,      \* table message: its rows
  PersonalSpaceEnable, \* Config.PersonalSpaceEnable
  faults,         \* whether calls to the outside can fail
  eventCap,       \* events the timeline takes in the deployment under study
  phase,          \* lifecycle of the Bridge
  managementRoom, \* Bridge.managementRoom
  spaceRoom,      \* Bridge.spaceRoom
  portals,        \* heap of Portal objects
  portalsByID,    \* Bridge.portalsByID: key -> Portal (0: no entry)
  usersByMXID,    \* Bridge.usersByMXID: the keys present
  syncPos,        \* events of the timeline the syncer has delivered
  pc,             \* per goroutine: where it stands
  convs,          \* per task: conversations of the cycle still to handle
  portal,         \* per task: the Portal being handled
  since,          \* per task: lastTimestamp of the running backfill
  batch,          \* per task: messages of the batch still to send
  sentEvt,        \* per task: event id returned by the last send
  run,            \* number of the process run
  hostexLog,      \* calls of HostexClient.SendMessage, in order
  storeLog        \* outcomes of Database.StoreMessage

hsVars == <<hsRooms, hsEvents>>
cfgVars == <<PersonalSpaceEnable, faults, eventCap>>
dbVars == <<dbPortal, dbMessage>>
memVars == <<phase, managementRoom, spaceRoom, portals, portalsByID,
             usersByMXID, syncPos>>
taskVars == <<pc, convs, portal, since, batch, sentEvt>>
logVars == <<hostexLog, storeLog>>
vars == <<now, remote, hsVars, dbVars, cfgVars, memVars,
          taskVars, run, logVars>>

Timer == 0
Syncer == 0 - 1

\* the outcomes of a call to the database, the homeserver or the remote
\* service: success, and failure where calls can fail
Outcomes == IF faults THEN BOOLEAN ELSE {TRUE}

\* the bounds of the model: a call that would exceed one does not return
RoomCap(ok) == ok => Len(hsRooms) < MaxRooms
EventCap(ok) == ok => Len(hsEvents) < eventCap
MsgCap(ok) == ok => Len(remote) < MaxMsgs
Tasks == 0..MaxSync
SyncTasks == 1..MaxSync
\* the goroutines: those that poll and the one that runs the syncing loop
Procs == Tasks \cup {Syncer}

\* -------------------------------------------------------------- time
\* time.Time.Unix(): whole seconds
Unix(t) == t \div Res
\* time.Unix(sec, 0)
TimeUnix(sec) == sec * Res

\* -------------------------------------------------------------- store
\* a lookup that finds no row
GetPortal_Miss(c) == NoRoom

\* GetPortal: the stored room id, "" when there is no row
GetPortal(c) == dbPortal[c]

\* StorePortal: upsert keyed by hostex_id; matrix_room_id is UNIQUE
StorePortalFails(c, room) ==
  \E o \in ConvIDs : o # c /\ dbPortal[o] = room

\* the rows of one conversation
RowsOf(c) == {i \in 1..Len(dbMessage) : dbMessage[i].hostex_id = c}

\* the smallest timestamp stored for a conversation
MinTimestamp(c) ==
  CHOOSE s \in {dbMessage[i].timestamp : i \in RowsOf(c)} :
    \A i \in RowsOf(c) : s <= dbMessage[i].timestamp

\* SELECT MAX(timestamp)
MaxTimestamp(c) ==
  CHOOSE s \in {dbMessage[i].timestamp : i \in RowsOf(c)} :
    \A i \in RowsOf(c) : dbMessage[i].timestamp <= s

\* GetLastMessageTimestamp: the aggregate always yields one row, NULL when
\* the conversation has no message; Scan of NULL into an int64 is an error
GetLastMessageTimestamp(c) ==
  IF RowsOf(c) = {}
    THEN [err |-> TRUE, ts |-> TimeUnix(0)]
    ELSE [err |-> FALSE, ts |-> TimeUnix(MaxTimestamp(c))]

\* a table without constraints
MessageConflict_None(rows, row) == FALSE

\* the UNIQUE and PRIMARY KEY constraints of table message

MessageConflict(rows, row) ==
  \E i \in 1..Len(rows) : rows[i].matrix_event_id = row.matrix_event_id

\* StoreMessage: a plain INSERT
StoreMessage(rows, row, dbOk) ==
  IF dbOk /\ ~MessageConflict(rows, row) THEN Append(rows, row) ELSE rows

MessageRow(c, evt, t, sender, content) ==
  [hostex_id |-> c, matrix_event_id |-> evt, timestamp |-> Unix(t),
   sender |-> sender, content |-> content]

StoreOutcome(rows, row, dbOk) ==
  [hostex_id |-> row.hostex_id, evt |-> row.matrix_event_id,
   dup |-> MessageConflict(rows, row),
   err |-> ~dbOk \/ MessageConflict(rows, row)]

\* -------------------------------------------------------------- remote
\* GetMessages(conversationID, since, limit): the messages of the
\* conversation newer than since, oldest first, at most limit of them
RECURSIVE Newer(_, _, _)
Newer(c, t, i) ==
  IF i > Len(remote) THEN <<>>
  ELSE IF remote[i].conv = c /\ remote[i].ts > t
         THEN <<i>> \o Newer(c, t, i + 1)
         ELSE Newer(c, t, i + 1)

GetMessages(c, t, limit) ==
  LET all == Newer(c, t, 1)
  IN  IF Len(all) <= limit THEN all ELSE SubSeq(all, 1, limit)

Body(m) == "m" \o ToString(m)

\* -------------------------------------------------------------- initial state
NoPortals == [k \in ConvIDs |-> 0]
IdlePc == [t \in Procs |-> "off"]

\* a fresh deployment: nothing on the homeserver, an empty database, the
\* Bridge constructed by NewBridge and not yet started
Deployment(canFail) ==
  /\ now = 0
  /\ remote = <<>>
  /\ hsRooms = <<>>
  /\ hsEvents = <<>>
  /\ dbPortal = [c \in ConvIDs |-> NoRoom]
  /\ dbMessage = <<>>
  /\ PersonalSpaceEnable \in BOOLEAN
  /\ faults = canFail
  /\ eventCap = MaxEvents
  /\ phase = "created"
  /\ managementRoom = NoRoom
  /\ spaceRoom = NoRoom
  /\ portals = <<>>
  /\ portalsByID = NoPortals
  /\ usersByMXID = {}
  /\ syncPos = 0
  /\ pc = IdlePc
  /\ convs = [t \in Tasks |-> <<>>]
  /\ portal = [t \in Tasks |-> 0]
  /\ since = [t \in Tasks |-> 0]
  /\ batch = [t \in Tasks |-> <<>>]
  /\ sentEvt = [t \in Tasks |-> 0]
  /\ run = 0
  /\ hostexLog = <<>>
  /\ storeLog = {}

Init == Deployment(TRUE)

\* the same deployment where no call to the outside ever fails
InitFresh == Deployment(FALSE)

\* A bridge that has been running for a while: Start went through, a poll
\* cycle has given both conversations their rooms and stored the pairings,
\* and a chat user has written "hi" into the room whose id is also the id of
\* the second conversation; the event was forwarded to the remote service at
\* tick at and its Message row written.  The polling loop is between two
\* ticks, the syncing loop has seen every event.
Bridged(canFail, at) ==
  /\ run = 0
  /\ now = at
  /\ remote = <<[conv |-> ConvList[2], ts |-> at, sender |-> "host",
                 body |-> "hi"]>>
  /\ hsRooms = <<[kind |-> "mgmt", conv |-> "", run |-> 0],
                 [kind |-> "portal", conv |-> ConvList[1], run |-> 0],
                 [kind |-> "portal", conv |-> ConvList[2], run |-> 0]>>
  /\ hsEvents = <<[room |-> RoomID(1), sender |-> Bot, msgtype |-> "m.text",
                   body |-> "setup", msg |-> 0, since |-> 0, run |-> 0],
                  [room |-> RoomID(3), sender |-> Guest, msgtype |-> "m.text",
                   body |-> "hi", msg |-> 0, since |-> 0, run |-> 0]>>
  /\ dbPortal = [c \in ConvIDs |->
                   IF c = ConvList[1] THEN RoomID(2) ELSE RoomID(3)]
  /\ dbMessage = <<MessageRow(ConvList[2], 2, at, Guest, "hi")>>
  /\ PersonalSpaceEnable = FALSE
  /\ faults = canFail
  /\ eventCap = MaxEventsLong
  /\ phase = "running"
  /\ managementRoom = RoomID(1)
  /\ spaceRoom = NoRoom
  /\ portals = <<[ID |-> ConvList[1], RoomID |-> RoomID(2)],
                 [ID |-> ConvList[2], RoomID |-> RoomID(3)]>>
  /\ portalsByID = [c \in ConvIDs |-> IF c = ConvList[1] THEN 1 ELSE 2]
  /\ usersByMXID = {}
  /\ syncPos = 2
  /\ pc = [t \in Procs |->
             IF t = Timer THEN "idle" ELSE IF t = Syncer THEN "sync" ELSE "off"]
  /\ convs = [t \in Tasks |-> <<>>]
  /\ portal = [t \in Tasks |-> 0]
  /\ since = [t \in Tasks |-> 0]
  /\ batch = [t \in Tasks |-> <<>>]
  /\ sentEvt = [t \in Tasks |-> 0]
  /\ hostexLog = <<[conv |-> ConvList[2], evt |-> 2, ok |-> TRUE, run |-> 0]>>
  /\ storeLog = {[hostex_id |-> ConvList[2], evt |-> 2, dup |-> FALSE,
                  err |-> FALSE]}

\* -------------------------------------------------------------- homeserver
RoomsOfKind(rooms, kind) == {i \in 1..Len(rooms) : rooms[i].kind = kind}

NewRoom(kind, c) == [kind |-> kind, conv |-> c, run |-> run]

\* an event of the timeline; msg and since describe a relayed remote message
Event(room, sender, msgtype, body, m, cursor) ==
  [room |-> room, sender |-> sender, msgtype |-> msgtype, body |-> body,
   msg |-> m, since |-> cursor, run |-> run]

\* MatrixClient.SendMessageEvent: the timeline after the call
SendMessageEvent(events, ok, evt) ==
  IF ok THEN Append(events, evt) ELSE events

\* -------------------------------------------------------------- Start
\* the joined rooms of a kind whose name can be read and matched (0: none);
\* reading the name of a room can fail
FoundRooms(rooms, kind) ==
  IF faults \/ RoomsOfKind(rooms, kind) = {}
    THEN {0} \cup RoomsOfKind(rooms, kind)
    ELSE RoomsOfKind(rooms, kind)

createOrFindManagementRoom(rooms, joinedOk, found, createOk) ==
  IF ~joinedOk THEN [err |-> TRUE, room |-> NoRoom, rooms |-> rooms]
  ELSE IF found # 0
    THEN [err |-> FALSE, room |-> RoomID(found), rooms |-> rooms]
  ELSE IF createOk
    THEN [err |-> FALSE, room |-> RoomID(Len(rooms) + 1),
          rooms |-> Append(rooms, NewRoom("mgmt", ""))]
  ELSE [err |-> TRUE, room |-> NoRoom, rooms |-> rooms]

\* The file holds two definitions of createOrFindPersonalSpace.  The first
\* asks of one state event that its type be "m.room.type" and "m.room.name"
\* at once, which no event satisfies: it matches no room.  The second reads
\* the create event and the name of each joined room.
FoundSpaceFirst(rooms) == 0

FoundSpaces(rooms) == {FoundSpaceFirst(rooms)} \cup FoundRooms(rooms, "space")

createOrFindPersonalSpace(rooms, joinedOk, found, createOk) ==
  IF ~joinedOk THEN [err |-> TRUE, room |-> NoRoom, rooms |-> rooms]
  ELSE IF found # 0
    THEN [err |-> FALSE, room |-> RoomID(found), rooms |-> rooms]
  ELSE IF createOk
    THEN [err |-> FALSE, room |-> RoomID(Len(rooms) + 1),
          rooms |-> Append(rooms, NewRoom("space", ""))]
  ELSE [err |-> TRUE, room |-> NoRoom, rooms |-> rooms]

\* Start with loops that run whatever the resolution of the rooms returned
StartedPc_Always(err) == [pc EXCEPT ![Timer] = "idle", ![Syncer] = "sync"]

\* the goroutines after Start: go b.startSyncing() and go b.startPolling()
\* are reached only when no resolution failed
StartedPc(err) ==
  IF err THEN pc ELSE [pc EXCEPT ![Timer] = "idle", ![Syncer] = "sync"]

Start ==
  /\ phase = "created"
  /\ \E jm, cm, js, cs, setupOk \in Outcomes :
     \E fm \in FoundRooms(hsRooms, "mgmt") :
       LET m == createOrFindManagementRoom(hsRooms, jm, fm, cm)
       IN  IF Len(m.rooms) > MaxRooms THEN FALSE
           ELSE IF m.err
             THEN /\ phase' = "failed"
                  /\ pc' = StartedPc(m.err)
                  /\ UNCHANGED <<hsVars, managementRoom, spaceRoom>>
             ELSE \E fs \in FoundSpaces(m.rooms) :
               LET s == IF PersonalSpaceEnable
                          THEN createOrFindPersonalSpace(m.rooms, js, fs, cs)
                          ELSE [err |-> FALSE, room |-> NoRoom,
                                rooms |-> m.rooms]
               IN  /\ Len(s.rooms) <= MaxRooms
                   /\ managementRoom' = m.room
                   /\ hsRooms' = s.rooms
                   /\ IF s.err
                        THEN /\ phase' = "failed"
                             /\ pc' = StartedPc(s.err)
                             /\ UNCHANGED <<hsEvents, spaceRoom>>
                        ELSE /\ EventCap(setupOk)
                             /\ phase' = "running"
                             /\ spaceRoom' = s.room
                             /\ pc' = StartedPc(s.err)
                             /\ hsEvents' = SendMessageEvent(hsEvents, setupOk,
                                  Event(m.room, Bot, "m.text", "setup", 0, 0))
  /\ UNCHANGED <<now, remote, dbVars, cfgVars, portals,
                 portalsByID, usersByMXID, syncPos, convs,
                 portal, since, batch, sentEvt, run, logVars>>

\* the process dies and is started again: memory is lost, the database, the
\* homeserver and the remote service keep their state; the syncer starts
\* without a stored position and is handed the timeline again
Restart ==
  /\ phase # "created"
  /\ run < MaxRuns
  /\ run' = run + 1
  /\ phase' = "created"
  /\ managementRoom' = NoRoom
  /\ spaceRoom' = NoRoom
  /\ portals' = <<>>
  /\ portalsByID' = NoPortals
  /\ usersByMXID' = {}
  /\ syncPos' = 0
  /\ pc' = IdlePc
  /\ convs' = [t \in Tasks |-> <<>>]
  /\ portal' = [t \in Tasks |-> 0]
  /\ since' = [t \in Tasks |-> 0]
  /\ batch' = [t \in Tasks |-> <<>>]
  /\ sentEvt' = [t \in Tasks |-> 0]
  /\ UNCHANGED <<now, remote, hsVars, dbVars, cfgVars, logVars>>

\* -------------------------------------------------------------- environment
\* The clock is read by the remote service when a message arrives and by
\* HandleMatrixMessage; it advances, by any amount, when it is read.
\* a guest writes into a conversation on the remote service
GuestPost ==
  /\ Len(remote) < MaxMsgs
  /\ \E c \in ConvIDs, t \in now..MaxTime :
       /\ now' = t
       /\ remote' = Append(remote, [conv |-> c, ts |-> t, sender |-> "guest",
                                    body |-> Body(Len(remote) + 1)])
  /\ UNCHANGED <<hsVars, dbVars, cfgVars, memVars,
                 taskVars, run, logVars>>

\* what the guests wrote before the bridge was first started
RemoteHistory ==
  /\ phase = "created"
  /\ GuestPost

\* -------------------------------------------------------------- poll cycle
\* where a task goes when pollHostex returns
PollDone(t) == IF t = Timer THEN "idle" ELSE "notice"

\* a poll cycle that gives up its list when a conversation fails
ConvDone_Abort(t) ==
  /\ convs' = [convs EXCEPT ![t] = <<>>]
  /\ pc' = [pc EXCEPT ![t] = "conv"]

\* handleHostexConversation returns: on to the next conversation of the list
ConvDone(t) ==
  /\ convs' = [convs EXCEPT ![t] = Tail(convs[t])]
  /\ pc' = [pc EXCEPT ![t] = "conv"]

\* pollHostex up to the loop over the conversations (lastPollTime, which
\* only the text of the !status reply reads, is left out)
pollHostex(t) ==
  /\ \E ok \in Outcomes :
       IF ok
         THEN /\ convs' = [convs EXCEPT ![t] = ConvList]
              /\ pc' = [pc EXCEPT ![t] = "conv"]
         ELSE /\ pc' = [pc EXCEPT ![t] = PollDone(t)]
              /\ UNCHANGED convs
  /\ UNCHANGED <<now, remote, hsVars, dbVars, cfgVars, phase,
                 managementRoom, spaceRoom, portals, portalsByID,
                 usersByMXID, syncPos, portal, since, batch, sentEvt, run,
                 logVars>>

\* loops that never look at the stop channel
StopClosed_Never == FALSE

\* case <-b.stop is ready
StopClosed == phase = "stopping"

\* the polling loop: the ticker fires
startPolling ==
  /\ pc[Timer] = "idle"
  /\ pollHostex(Timer)

\* the polling loop: select takes case <-b.stop
startPolling_stop ==
  /\ StopClosed
  /\ pc[Timer] = "idle"
  /\ pc' = [pc EXCEPT ![Timer] = "exited"]
  /\ UNCHANGED <<now, remote, hsVars, dbVars, cfgVars, memVars,
                 convs, portal, since, batch, sentEvt, run, logVars>>

\* the goroutine of !sync starts its poll
ForceSyncConversations(t) ==
  /\ t \in SyncTasks
  /\ pc[t] = "spawned"
  /\ pollHostex(t)

\* the loop of pollHostex and the registry lookup of handleHostexConversation
handleHostexConversation(t) ==
  /\ pc[t] = "conv"
  /\ IF convs[t] = <<>>
       THEN /\ pc' = [pc EXCEPT ![t] = PollDone(t)]
            /\ UNCHANGED portal
       ELSE LET ref == portalsByID[Head(convs[t])]
            IN  IF ref # 0
                  THEN /\ portal' = [portal EXCEPT ![t] = ref]
                       /\ pc' = [pc EXCEPT ![t] = "ensure"]
                  ELSE /\ pc' = [pc EXCEPT ![t] = "insert"]
                       /\ UNCHANGED portal
  /\ UNCHANGED <<now, remote, hsVars, dbVars, cfgVars, memVars,
                 convs, since, batch, sentEvt, run, logVars>>

\* NewPortal and the registry insert
NewPortal(c) == [ID |-> c, RoomID |-> NoRoom]

handleHostexConversation_insert(t) ==
  /\ pc[t] = "insert"
  /\ portals' = Append(portals, NewPortal(Head(convs[t])))
  /\ portalsByID' = [portalsByID EXCEPT ![Head(convs[t])] = Len(portals) + 1]
  /\ portal' = [portal EXCEPT ![t] = Len(portals) + 1]
  /\ pc' = [pc EXCEPT ![t] = "ensure"]
  /\ UNCHANGED <<now, remote, hsVars, dbVars, cfgVars, phase,
                 managementRoom, spaceRoom, usersByMXID, syncPos, convs,
                 since, batch, sentEvt, run, logVars>>

\* -------------------------------------------------------------- ensure room
\* no early return
HasRoom_Never(p) == FALSE

\* the early return of CreateMatrixRoom
HasRoom(p) == portals[p].RoomID # NoRoom

\* CreateMatrixRoom up to the call of CreateRoom
CreateMatrixRoom(t) ==
  /\ pc[t] = "ensure"
  /\ LET p == portal[t]
     IN  IF HasRoom(p)
           THEN /\ pc' = [pc EXCEPT ![t] = "getlast"]
                /\ UNCHANGED <<portals, convs>>
           ELSE \E dbOk \in Outcomes :
                  IF ~dbOk
                    THEN ConvDone(t) /\ UNCHANGED portals
                  ELSE IF GetPortal(portals[p].ID) # NoRoom
                    THEN /\ portals' = [portals EXCEPT
                                          ![p].RoomID = GetPortal(portals[p].ID)]
                         /\ pc' = [pc EXCEPT ![t] = "getlast"]
                         /\ UNCHANGED convs
                    ELSE /\ pc' = [pc EXCEPT ![t] = "create"]
                         /\ UNCHANGED <<portals, convs>>
  /\ UNCHANGED <<now, remote, hsVars, dbVars, cfgVars, phase,
                 managementRoom, spaceRoom, portalsByID, usersByMXID,
                 syncPos, portal, since, batch, sentEvt, run,
                 logVars>>

\* a handler that goes on to the backfill although CreateRoom failed
CreateMatrixRoom_create_Go(t) ==
  /\ pc[t] = "create"
  /\ \E ok \in Outcomes :
       /\ RoomCap(ok)
       /\ IF ok
            THEN /\ hsRooms' = Append(hsRooms,
                                      NewRoom("portal", portals[portal[t]].ID))
                 /\ portals' = [portals EXCEPT
                                  ![portal[t]].RoomID = RoomID(Len(hsRooms) + 1)]
                 /\ pc' = [pc EXCEPT ![t] = "store"]
            ELSE /\ pc' = [pc EXCEPT ![t] = "getlast"]
                 /\ UNCHANGED <<hsRooms, portals>>
  /\ UNCHANGED <<now, remote, hsEvents, dbVars, cfgVars, phase,
                 managementRoom, spaceRoom, portalsByID, usersByMXID,
                 syncPos, convs, portal, since, batch, sentEvt, run,
                 logVars>>

\* MatrixClient.CreateRoom and the assignment of p.RoomID
CreateMatrixRoom_create(t) ==
  /\ pc[t] = "create"
  /\ \E ok \in Outcomes :
       /\ RoomCap(ok)
       /\ IF ok
            THEN /\ hsRooms' = Append(hsRooms,
                                      NewRoom("portal", portals[portal[t]].ID))
                 /\ portals' = [portals EXCEPT
                                  ![portal[t]].RoomID = RoomID(Len(hsRooms) + 1)]
                 /\ pc' = [pc EXCEPT ![t] = "store"]
                 /\ UNCHANGED convs
            ELSE ConvDone(t) /\ UNCHANGED <<hsRooms, portals>>
  /\ UNCHANGED <<now, remote, hsEvents, dbVars, cfgVars, phase,
                 managementRoom, spaceRoom, portalsByID, usersByMXID,
                 syncPos, portal, since, batch, sentEvt, run,
                 logVars>>

\* StorePortal of the pairing; the attachment to the personal space changes
\* nothing the bridge reads and its failure is only logged
CreateMatrixRoom_store(t) ==
  /\ pc[t] = "store"
  /\ LET p == portals[portal[t]]
     IN  \E dbOk \in Outcomes :
           IF dbOk /\ ~StorePortalFails(p.ID, p.RoomID)
             THEN /\ dbPortal' = [dbPortal EXCEPT ![p.ID] = p.RoomID]
                  /\ pc' = [pc EXCEPT ![t] = "getlast"]
                  /\ UNCHANGED convs
             ELSE ConvDone(t) /\ UNCHANGED dbPortal
  /\ UNCHANGED <<now, remote, hsVars, dbMessage, cfgVars,
                 memVars, portal, since, batch, sentEvt, run, logVars>>

\* -------------------------------------------------------------- backfill
\* BackfillMessages: the cursor
BackfillMessages(t) ==
  /\ pc[t] = "getlast"
  /\ LET last == GetLastMessageTimestamp(portals[portal[t]].ID)
     IN  \E dbOk \in Outcomes :
           IF dbOk /\ ~last.err
             THEN /\ since' = [since EXCEPT ![t] = last.ts]
                  /\ pc' = [pc EXCEPT ![t] = "fetch"]
                  /\ UNCHANGED convs
             ELSE ConvDone(t) /\ UNCHANGED since
  /\ UNCHANGED <<now, remote, hsVars, dbVars, cfgVars, memVars,
                 portal, batch, sentEvt, run, logVars>>

\* BackfillMessages: HostexClient.GetMessages
BackfillMessages_fetch(t) ==
  /\ pc[t] = "fetch"
  /\ \E ok \in Outcomes :
       IF ok
         THEN /\ batch' = [batch EXCEPT ![t] =
                   GetMessages(portals[portal[t]].ID, since[t], PageSize)]
              /\ pc' = [pc EXCEPT ![t] = "send"]
              /\ UNCHANGED convs
         ELSE ConvDone(t) /\ UNCHANGED batch
  /\ UNCHANGED <<now, remote, hsVars, dbVars, cfgVars, memVars,
                 portal, since, sentEvt, run, logVars>>

\* a backfill that returns at the first send that fails
SendMessage_Abort(t) ==
  /\ pc[t] = "send"
  /\ IF batch[t] = <<>>
       THEN ConvDone(t) /\ UNCHANGED <<hsEvents, batch, sentEvt>>
       ELSE LET m == Head(batch[t])
            IN  \E ok \in Outcomes :
                  IF ~EventCap(ok) THEN FALSE
                  ELSE IF ok
                    THEN /\ hsEvents' = SendMessageEvent(hsEvents, ok,
                              Event(portals[portal[t]].RoomID, Bot, "m.text",
                                    remote[m].body, m, since[t]))
                         /\ sentEvt' = [sentEvt EXCEPT ![t] = Len(hsEvents) + 1]
                         /\ pc' = [pc EXCEPT ![t] = "record"]
                         /\ UNCHANGED <<batch, convs>>
                    ELSE ConvDone(t) /\ UNCHANGED <<hsEvents, batch, sentEvt>>
  /\ UNCHANGED <<now, remote, hsRooms, dbVars, cfgVars, memVars,
                 portal, since, run, logVars>>

\* a backfill that takes the newest message of its batch first
SendMessage_Last(t) ==
  /\ pc[t] = "send"
  /\ IF batch[t] = <<>>
       THEN ConvDone(t) /\ UNCHANGED <<hsEvents, batch, sentEvt>>
       ELSE LET m == batch[t][Len(batch[t])]
            IN  \E ok \in Outcomes :
                  IF ~EventCap(ok) THEN FALSE
                  ELSE IF ok
                    THEN /\ hsEvents' = SendMessageEvent(hsEvents, ok,
                              Event(portals[portal[t]].RoomID, Bot, "m.text",
                                    remote[m].body, m, since[t]))
                         /\ sentEvt' = [sentEvt EXCEPT ![t] = Len(hsEvents) + 1]
                         /\ pc' = [pc EXCEPT ![t] = "record"]
                         /\ UNCHANGED <<batch, convs>>
                    ELSE /\ batch' = [batch EXCEPT ![t] = Tail(batch[t])]
                         /\ UNCHANGED <<hsEvents, sentEvt, pc, convs>>
  /\ UNCHANGED <<now, remote, hsRooms, dbVars, cfgVars, memVars,
                 portal, since, run, logVars>>

\* the loop of BackfillMessages and SendMessage up to SendMessageEvent
SendMessage(t) ==
  /\ pc[t] = "send"
  /\ IF batch[t] = <<>>
       THEN ConvDone(t) /\ UNCHANGED <<hsEvents, batch, sentEvt>>
       ELSE LET m == Head(batch[t])
            IN  \E ok \in Outcomes :
                  IF ~EventCap(ok) THEN FALSE
                  ELSE IF ok
                    THEN /\ hsEvents' = SendMessageEvent(hsEvents, ok,
                              Event(portals[portal[t]].RoomID, Bot, "m.text",
                                    remote[m].body, m, since[t]))
                         /\ sentEvt' = [sentEvt EXCEPT ![t] = Len(hsEvents) + 1]
                         /\ pc' = [pc EXCEPT ![t] = "record"]
                         /\ UNCHANGED <<batch, convs>>
                    ELSE /\ batch' = [batch EXCEPT ![t] = Tail(batch[t])]
                         /\ UNCHANGED <<hsEvents, sentEvt, pc, convs>>
  /\ UNCHANGED <<now, remote, hsRooms, dbVars, cfgVars, memVars,
                 portal, since, run, logVars>>

\* a SendMessage that leaves the rows to be written later
SendMessage_store_Later(t) ==
  /\ pc[t] = "record"
  /\ batch' = [batch EXCEPT ![t] = Tail(batch[t])]
  /\ pc' = [pc EXCEPT ![t] = "send"]
  /\ UNCHANGED <<now, remote, hsVars, dbVars, cfgVars, memVars,
                 convs, portal, since, sentEvt, run, logVars>>

\* SendMessage: StoreMessage of the message just sent
SendMessage_store(t) ==
  /\ pc[t] = "record"
  /\ LET m == Head(batch[t])
         row == MessageRow(portals[portal[t]].ID, sentEvt[t], remote[m].ts,
                           remote[m].sender, remote[m].body)
     IN  \E dbOk \in Outcomes :
           /\ dbMessage' = StoreMessage(dbMessage, row, dbOk)
           /\ storeLog' = storeLog \cup {StoreOutcome(dbMessage, row, dbOk)}
  /\ batch' = [batch EXCEPT ![t] = Tail(batch[t])]
  /\ pc' = [pc EXCEPT ![t] = "send"]
  /\ UNCHANGED <<now, remote, hsVars, dbPortal, cfgVars, memVars,
                 convs, portal, since, sentEvt, run, hostexLog>>

\* -------------------------------------------------------------- chat users
\* what the users type
TextBodies == {"hi"}
CommandBodies == {"!help", "!status", "!list", "!sync", "!SYNC now",
                  "!foobar", " "}
\* bodies without a token: the empty one and one of white space
BlankBodies == {"", " "}
\* the same and one command
BlankOrHelp == {"", " ", "!help"}
\* the message types that the users send
TextOrImage == {"m.text", "m.image"}

\* a user writes a message of one of the given types into a room that is no
\* management room
UserSend(msgtypes) ==
  /\ Len(hsEvents) < eventCap
  /\ \E i \in 1..Len(hsRooms), sender \in {Guest},
        msgtype \in msgtypes, body \in TextBodies :
       /\ hsRooms[i].kind # "mgmt"
       /\ hsEvents' = Append(hsEvents,
                             Event(RoomID(i), sender, msgtype, body, 0, 0))
  /\ UNCHANGED <<now, remote, hsRooms, dbVars, cfgVars, memVars,
                 taskVars, run, logVars>>

\* a user writes one of the given bodies into a management room
AdminSend(bodies) ==
  /\ Len(hsEvents) < eventCap
  /\ \E i \in RoomsOfKind(hsRooms, "mgmt"), sender \in {Admin, Guest},
        body \in bodies :
       hsEvents' = Append(hsEvents,
                          Event(RoomID(i), sender, "m.text", body, 0, 0))
  /\ UNCHANGED <<now, remote, hsRooms, dbVars, cfgVars, memVars,
                 taskVars, run, logVars>>

\* -------------------------------------------------------------- commands
\* a split that takes a body without a token as one token
Fields_Whole(b) ==
  CASE b = "!SYNC now" -> <<"!SYNC", "now">>
    [] OTHER -> <<b>>

\* strings.Fields on the bodies above
Fields(b) ==
  CASE b \in BlankBodies -> <<>>
    [] b = "!SYNC now" -> <<"!SYNC", "now">>
    [] OTHER -> <<b>>

\* a command word compared as it was typed
ToLower_Id(w) == w

\* strings.ToLower on their first tokens
ToLower(w) == IF w = "!SYNC" THEN "!sync" ELSE w

\* a handler that answers every command with the command list
Reply_Static(command) == "help"

\* the reply of a command other than !sync
Reply(command) ==
  CASE command = "!help" -> "help"
    [] command = "!status" -> "status"
    [] command = "!list" -> "list"
    [] OTHER -> "unknown"

FreeSyncTasks == {t \in SyncTasks : pc[t] = "off"}

\* User.HandleCommand, with forceSyncConversations up to its go statement
HandleCommand(roomID, body) ==
  LET parts == Fields(body)
  IN  IF parts = <<>>
        THEN UNCHANGED <<hsEvents, pc>>
      ELSE IF ToLower(parts[1]) = "!sync"
        THEN /\ FreeSyncTasks # {}
             /\ \E ok \in Outcomes :
                  /\ EventCap(ok)
                  /\ hsEvents' = SendMessageEvent(hsEvents, ok,
                       Event(roomID, Bot, "m.notice", "sync-start", 0, 0))
             /\ \E t \in FreeSyncTasks :
                  /\ \A u \in FreeSyncTasks : t <= u
                  /\ pc' = [pc EXCEPT ![t] = "spawned"]
        ELSE /\ \E ok \in Outcomes :
                  /\ EventCap(ok)
                  /\ hsEvents' = SendMessageEvent(hsEvents, ok,
                       Event(roomID, Bot, "m.notice",
                             Reply(ToLower(parts[1])), 0, 0))
             /\ UNCHANGED pc

\* a closing notice that does not wait for the poll
forceSyncConversations_Early(t) ==
  /\ t \in SyncTasks
  /\ pc[t] \in {"spawned", "notice"}
  /\ \E ok \in Outcomes :
       /\ EventCap(ok)
       /\ hsEvents' = SendMessageEvent(hsEvents, ok,
            Event(managementRoom, Bot, "m.notice", "sync-complete", 0, 0))
  /\ pc' = [pc EXCEPT ![t] = "off"]
  /\ UNCHANGED <<now, remote, hsRooms, dbVars, cfgVars, memVars,
                 convs, portal, since, batch, sentEvt, run, logVars>>

\* the goroutine of !sync after its poll: the closing notice
forceSyncConversations(t) ==
  /\ t \in SyncTasks
  /\ pc[t] = "notice"
  /\ \E ok \in Outcomes :
       /\ EventCap(ok)
       /\ hsEvents' = SendMessageEvent(hsEvents, ok,
            Event(managementRoom, Bot, "m.notice", "sync-complete", 0, 0))
  /\ pc' = [pc EXCEPT ![t] = "off"]
  /\ UNCHANGED <<now, remote, hsRooms, dbVars, cfgVars, memVars,
                 convs, portal, since, batch, sentEvt, run, logVars>>

\* a control room that obeys whoever writes in it
Authorized_Anyone(evt) == TRUE

\* evt.Sender against Config.Admin.UserID
Authorized(evt) == evt.sender = Admin

handleManagementCommand(evt) ==
  IF ~Authorized(evt)
    THEN UNCHANGED <<hsEvents, usersByMXID, pc>>
    ELSE /\ usersByMXID' = usersByMXID \cup {evt.sender}
         /\ HandleCommand(evt.room, evt.body)

\* -------------------------------------------------------------- inbound relay
\* a handler that stores whatever the send returned
StoreAfterSend_Always(sendOk) == TRUE

\* whether HandleMatrixMessage goes on to StoreMessage after the send
StoreAfterSend(sendOk) == sendOk

\* Portal.HandleMatrixMessage for the event with id evtID
HandleMatrixMessage(p, evt, evtID) ==
  \E sendOk, dbOk \in Outcomes, t \in now..MaxTime :
    LET row == MessageRow(portals[p].ID, evtID, t, evt.sender, evt.body)
    IN  /\ MsgCap(sendOk)
        /\ now' = t
        /\ hostexLog' = Append(hostexLog,
              [conv |-> portals[p].ID, evt |-> evtID, ok |-> sendOk,
               run |-> run])
        /\ remote' = IF sendOk
                       THEN Append(remote, [conv |-> portals[p].ID,
                              ts |-> t, sender |-> "host",
                              body |-> evt.body])
                       ELSE remote
        /\ IF StoreAfterSend(sendOk)
             THEN /\ dbMessage' = StoreMessage(dbMessage, row, dbOk)
                  /\ storeLog' = storeLog \cup
                                   {StoreOutcome(dbMessage, row, dbOk)}
             ELSE UNCHANGED <<dbMessage, storeLog>>

\* b.portalsByID[evt.RoomID.String()]
LookupPortal(key) == IF key \in ConvIDs THEN portalsByID[key] ELSE 0

\* Bridge.handleMatrixMessage
handleMatrixMessage(evt, evtID) ==
  IF evt.room = managementRoom
    THEN /\ handleManagementCommand(evt)
         /\ UNCHANGED <<now, remote, dbMessage, logVars>>
  ELSE IF LookupPortal(evt.room) = 0
    THEN UNCHANGED <<now, remote, dbMessage, logVars, hsEvents, usersByMXID,
                     pc>>
    ELSE /\ HandleMatrixMessage(LookupPortal(evt.room), evt, evtID)
         /\ UNCHANGED <<hsEvents, usersByMXID, pc>>

\* the syncing loop: Sync hands the next event of the timeline to the handler
startSyncing ==
  /\ pc[Syncer] = "sync"
  /\ syncPos < Len(hsEvents)
  /\ handleMatrixMessage(hsEvents[syncPos + 1], syncPos + 1)
  /\ syncPos' = syncPos + 1
  /\ UNCHANGED <<hsRooms, dbPortal, cfgVars, phase,
                 managementRoom, spaceRoom, portals, portalsByID,
                 convs, portal, since, batch, sentEvt, run>>

\* the syncing loop: Sync has returned and select takes case <-b.stop
startSyncing_stop ==
  /\ StopClosed
  /\ pc[Syncer] = "sync"
  /\ pc' = [pc EXCEPT ![Syncer] = "exited"]
  /\ UNCHANGED <<now, remote, hsVars, dbVars, cfgVars, memVars,
                 convs, portal, since, batch, sentEvt, run, logVars>>

\* -------------------------------------------------------------- Stop
\* b.wg.Wait() returns at once
LoopsDone_NoWait == TRUE

\* b.wg.Wait() returns: both loops have called wg.Done()
LoopsDone == pc[Timer] = "exited" /\ pc[Syncer] = "exited"

\* Stop up to close(b.stop)
Stop ==
  /\ phase = "running"
  /\ phase' = "stopping"
  /\ UNCHANGED <<now, remote, hsVars, dbVars, cfgVars, managementRoom,
                 spaceRoom, portals, portalsByID, usersByMXID, syncPos,
                 taskVars, run, logVars>>

\* Stop returns
Stop_wait ==
  /\ phase = "stopping"
  /\ LoopsDone
  /\ phase' = "stopped"
  /\ UNCHANGED <<now, remote, hsVars, dbVars, cfgVars, managementRoom,
                 spaceRoom, portals, portalsByID, usersByMXID, syncPos,
                 taskVars, run, logVars>>

\* -------------------------------------------------------------- specifications
\* one poll cycle of task t up to the cursor read of the backfill
PollEnsure(t) ==
  \/ handleHostexConversation(t)
  \/ handleHostexConversation_insert(t)
  \/ CreateMatrixRoom(t)
  \/ CreateMatrixRoom_create(t)
  \/ CreateMatrixRoom_store(t)
  \/ BackfillMessages(t)

\* the rest of the backfill, reached once the conversation has a Message row
PollRelay(t) ==
  \/ BackfillMessages_fetch(t)
  \/ SendMessage(t)
  \/ SendMessage_store(t)

\* One process run, poll cycles one after another: the polling loop and the
\* syncing loop, guests and chat users writing; no !sync.
NextSeq ==
  \/ Start
  \/ GuestPost
  \/ UserSend({"m.text"})
  \/ startPolling
  \/ PollEnsure(Timer)
  \/ PollRelay(Timer)
  \/ startSyncing

SpecSeq == Init /\ [][NextSeq]_vars

\* Restarts of the process against a remote service whose conversations are
\* silent: no conversation ever gets a Message row, so every backfill ends
\* at its cursor read.
NextRestart ==
  \/ Start
  \/ Restart
  \/ startPolling
  \/ PollEnsure(Timer)
  \/ startSyncing

SpecRestart == Init /\ [][NextRestart]_vars

\* The same where no call to the outside ever fails.
SpecRestartFresh == InitFresh /\ [][NextRestart]_vars

\* One process run with the admin typing !sync: the polling loop and the
\* goroutines of !sync poll concurrently, the conversations are silent.
NextSync ==
  \/ Start
  \/ AdminSend({"!sync"})
  \/ startPolling
  \/ startSyncing
  \/ \E t \in Tasks : PollEnsure(t)
  \/ \E t \in SyncTasks :
       \/ ForceSyncConversations(t)
       \/ forceSyncConversations(t)

SpecSync == Init /\ [][NextSync]_vars

\* One process run in which the administrator and a guest of the control room
\* type commands; the ticker of the polling loop does not fire during the
\* run, the calls of the bridge may fail or not.
InitCmd == \E canFail \in BOOLEAN : Deployment(canFail)

NextCmd ==
  \/ Start
  \/ AdminSend(CommandBodies)
  \/ startSyncing
  \/ \E t \in SyncTasks :
       \/ ForceSyncConversations(t)
       \/ PollEnsure(t)
       \/ forceSyncConversations(t)

SpecCmd == InitCmd /\ [][NextCmd]_vars

\* one poll cycle of task t over conversations that have their rooms
PollHave(t) ==
  \/ handleHostexConversation(t)
  \/ CreateMatrixRoom(t)
  \/ BackfillMessages(t)

\* A bridge that has been running, no call failing: the polling loop and the
\* goroutine of a !sync poll at the same time while a guest writes.
InitRace == Bridged(FALSE, 0)

NextRace ==
  \/ GuestPost
  \/ AdminSend({"!sync"})
  \/ startSyncing
  \/ startPolling
  \/ \E t \in SyncTasks :
       \/ ForceSyncConversations(t)
       \/ forceSyncConversations(t)
  \/ \E t \in Tasks :
       \/ PollHave(t)
       \/ PollRelay(t)

SpecRace == InitRace /\ [][NextRace]_vars

\* one poll cycle of task t over conversations whose pairings are stored
PollAdopt(t) ==
  \/ handleHostexConversation_insert(t)
  \/ PollHave(t)

\* A bridge that has been running, no call failing: the process can die at
\* any point of a backfill and is started again.
InitCrash == \E at \in 0..1 : Bridged(FALSE, at)

NextCrash ==
  \/ GuestPost
  \/ startPolling
  \/ PollAdopt(Timer)
  \/ PollRelay(Timer)
  \/ startSyncing
  \/ Restart
  \/ Start

SpecCrash == InitCrash /\ [][NextCrash]_vars

\* A bridge that has been running, calls failing or not: guests write on the
\* remote service, the polling loop backfills and the syncing loop is handed
\* what the bridge sends into the rooms; nobody writes in the rooms.
InitRelay == \E at \in 0..1 : Bridged(TRUE, at)

NextRelay ==
  \/ GuestPost
  \/ startPolling
  \/ PollHave(Timer)
  \/ PollRelay(Timer)
  \/ startSyncing

SpecRelay == InitRelay /\ [][NextRelay]_vars

\* The same bridge with a chat user writing texts and images into the portal
\* rooms; the ticker of the polling loop does not fire.
NextInbound ==
  \/ UserSend(TextOrImage)
  \/ startSyncing

SpecInbound == InitRelay /\ [][NextInbound]_vars

\* Restarts of the process; in the last run a chat user writes into the rooms
\* that the runs have left on the account.
NextForeign ==
  \/ Start
  \/ Restart
  \/ run = MaxRuns /\ UserSend({"m.text"})
  \/ startPolling
  \/ PollEnsure(Timer)
  \/ startSyncing

SpecForeign == Init /\ [][NextForeign]_vars

\* One process run in which the administrator and a guest of the control room
\* send bodies without a token, and !help; no poll runs.
NextBlank ==
  \/ Start
  \/ AdminSend(BlankOrHelp)
  \/ startSyncing

SpecBlank == InitCmd /\ [][NextBlank]_vars

\* One process run that is stopped: the two loops of Start, the admin typing
\* !help, and Stop.
NextStop ==
  \/ Start
  \/ AdminSend({"!help"})
  \/ startPolling
  \/ PollEnsure(Timer)
  \/ startSyncing
  \/ Stop
  \/ startPolling_stop
  \/ startSyncing_stop
  \/ Stop_wait

SpecStop == Init /\ [][NextStop]_vars

\* The same run where every call in flight returns: a poll cycle goes on to
\* its end and Sync comes back to the loop; a select with the stop channel
\* ready takes that case sooner or later.
SpecStopFair ==
  /\ SpecStop
  /\ WF_vars(PollEnsure(Timer))
  /\ SF_vars(startPolling_stop)
  /\ WF_vars(startSyncing_stop)
  /\ WF_vars(Stop_wait)

\* One process run that is stopped while the admin types !sync; the ticker
\* of the polling loop does not fire during the run.
NextLife ==
  \/ Start
  \/ AdminSend({"!sync"})
  \/ startSyncing
  \/ \E t \in SyncTasks :
       \/ ForceSyncConversations(t)
       \/ PollEnsure(t)
       \/ forceSyncConversations(t)
  \/ Stop
  \/ startPolling_stop
  \/ startSyncing_stop
  \/ Stop_wait

SpecLife == Init /\ [][NextLife]_vars

\* The first start on a fresh deployment where nothing fails: the guests have
\* written before the start and are silent afterwards, nobody writes in the
\* chat rooms.
NextFresh ==
  \/ RemoteHistory
  \/ Start
  \/ startPolling
  \/ PollEnsure(Timer)
  \/ startSyncing

SpecFresh == InitFresh /\ [][NextFresh]_vars

\* everything at once
Next ==
  \/ NextSeq
  \/ Restart
  \/ AdminSend(CommandBodies)
  \/ \E t \in SyncTasks :
       \/ ForceSyncConversations(t)
       \/ PollEnsure(t)
       \/ PollRelay(t)
       \/ forceSyncConversations(t)

Spec == Init /\ [][Next]_vars

\* ============================================================== properties
\* the rooms created for conversation c, and those created in run r
PortalRooms(c) ==
  {i \in 1..Len(hsRooms) : hsRooms[i].kind = "portal" /\ hsRooms[i].conv = c}

PortalRoomsOfRun(c, r) == {i \in PortalRooms(c) : hsRooms[i].run = r}

\* C1: within one process run whose poll cycles run one after another, at
\* most one room is ever created for a conversation, whatever fails in
\* between (room creation, persisting the pairing).
C1_OneRoomPerRun ==
  \A c \in ConvIDs, r \in 0..MaxRuns : Cardinality(PortalRoomsOfRun(c, r)) <= 1

\* a later cycle finds the room of a conversation in memory although the
\* pairing was never persisted, and goes on to the backfill
C1_Witness ==
  \E c \in ConvIDs :
    /\ pc[Timer] = "getlast"
    /\ portals[portal[Timer]].ID = c
    /\ PortalRoomsOfRun(c, run) # {}
    /\ dbPortal[c] = NoRoom

\* C2: the same with the ticker's poll and the poll of !sync running
\* concurrently: at most one room is ever created for a conversation.
C2_OneRoomConcurrent ==
  \A c \in ConvIDs : \A i, j \in PortalRooms(c) : i = j

\* C3: when the database holds the pairing of a conversation and the Portal
\* in memory has no room (the registry was lost in a restart),
\* CreateMatrixRoom adopts the stored room: it never goes on to create a
\* room, creates none and writes nothing to the database.
C3_RestartAdoptsStoredRoom ==
  [][(/\ pc[Timer] = "ensure"
      /\ pc'[Timer] # "ensure"
      /\ run' = run
      /\ portals[portal[Timer]].RoomID = NoRoom
      /\ dbPortal[portals[portal[Timer]].ID] # NoRoom)
     => /\ pc'[Timer] \in {"getlast", "conv"}
        /\ hsRooms' = hsRooms
        /\ dbPortal' = dbPortal
        /\ dbMessage' = dbMessage
        /\ pc'[Timer] = "getlast" =>
              portals'[portal[Timer]].RoomID =
                dbPortal[portals[portal[Timer]].ID]]_vars

\* after a restart the Portal of a conversation carries the stored room and
\* no room was created for the conversation in this run
C3_Witness ==
  \E c \in ConvIDs :
    /\ run > 0
    /\ pc[Timer] = "getlast"
    /\ portals[portal[Timer]].ID = c
    /\ dbPortal[c] # NoRoom
    /\ portals[portal[Timer]].RoomID = dbPortal[c]
    /\ PortalRoomsOfRun(c, run) = {}

\* the events that relay remote message m, and the guests' messages
Relays(m) == {i \in 1..Len(hsEvents) : hsEvents[i].msg = m}

GuestMsgs(c) ==
  {m \in 1..Len(remote) : remote[m].conv = c /\ remote[m].sender = "guest"}

\* C4: over poll cycles that run one after another, whatever fails (a send
\* into the room, the write of the Message row), no remote message is relayed
\* into its room twice.
C4_NoDoubleRelay ==
  \A m \in 1..Len(remote) : \A i, j \in Relays(m) : i = j

\* a backfill under way still holds message m of conversation c, or is about
\* to fetch it
Pending(c, m) ==
  \E t \in Tasks :
    /\ pc[t] \in {"fetch", "send", "record"}
    /\ portals[portal[t]].ID = c
    /\ \/ pc[t] = "fetch" /\ remote[m].ts > since[t]
       \/ pc[t] # "fetch" /\ \E k \in 1..Len(batch[t]) : batch[t][k] = m

\* C5: no message of a guest is lost. The cursor of a conversation, the
\* largest stored timestamp, never goes back, and a backfill fetches only
\* what is newer than it; so every message is relayed in the end only if, in
\* every state, a message not yet relayed is ahead of the cursor of its
\* conversation or in the hands of a backfill under way.
C5_NoMessageLost ==
  \A c \in ConvIDs : \A m \in GuestMsgs(c) :
    \/ Relays(m) # {}
    \/ Pending(c, m)
    \/ RowsOf(c) = {}
    \/ \E i \in RowsOf(c) : \A j \in RowsOf(c) :
         /\ dbMessage[j].timestamp <= dbMessage[i].timestamp
         /\ remote[m].ts > dbMessage[i].timestamp * Res

\* C6: a backfill reads as its cursor exactly the largest timestamp T stored
\* for the conversation, and every message it relays is newer than the
\* cursor it was fetched with: nothing at or below T is sent again by it.
C6_CursorIsMaxStored ==
  /\ [](\A i \in 1..Len(hsEvents) :
         hsEvents[i].msg # 0 =>
           /\ remote[hsEvents[i].msg].ts > hsEvents[i].since
           /\ remote[hsEvents[i].msg].conv =
                hsRooms[CHOOSE k \in 1..Len(hsRooms) :
                          RoomID(k) = hsEvents[i].room].conv)
  /\ [][(pc[Timer] = "getlast" /\ pc'[Timer] = "fetch") =>
         LET rows == RowsOf(portals[portal[Timer]].ID)
         IN  /\ \E i \in rows : since'[Timer] = dbMessage[i].timestamp * Res
             /\ \A i \in rows : dbMessage[i].timestamp * Res <= since'[Timer]]_vars

\* a backfill relayed a message newer than its cursor although the remote
\* service also held an older message of the conversation
C6_Witness ==
  \E i \in 1..Len(hsEvents) :
    /\ hsEvents[i].msg # 0
    /\ \E m \in 1..Len(remote) :
         /\ remote[m].conv = remote[hsEvents[i].msg].conv
         /\ remote[m].ts <= hsEvents[i].since
         /\ Relays(m) = {}

\* C7: on a fresh deployment where nothing fails, once the first poll cycle
\* is over every conversation has exactly one room and its pairing stored,
\* and every message the remote service held is relayed by exactly one event
\* of that room and recorded in a Message row (conversation, event id,
\* timestamp in seconds, sender, body).
C7_FirstPollDelivers ==
  (pc[Timer] = "idle" /\ \A c \in ConvIDs : portalsByID[c] # 0) =>
    \A c \in ConvIDs :
      /\ Cardinality(PortalRooms(c)) = 1
      /\ \A k \in PortalRooms(c) : dbPortal[c] = RoomID(k)
      /\ \A m \in GuestMsgs(c) :
           /\ Cardinality(Relays(m)) = 1
           /\ \A i \in Relays(m) :
                /\ hsEvents[i].room = dbPortal[c]
                /\ \E j \in 1..Len(dbMessage) :
                     dbMessage[j] = [hostex_id |-> c, matrix_event_id |-> i,
                                     timestamp |-> remote[m].ts \div Res,
                                     sender |-> remote[m].sender,
                                     content |-> remote[m].body]

\* C8: a text message that a user writes into the room of a registered
\* Portal is forwarded to the remote service under the conversation of that
\* Portal, and the write of its Message row follows a successful send.
C8_InboundForwarded ==
  [][\A c \in ConvIDs :
       (/\ syncPos' = syncPos + 1
        /\ portalsByID[c] # 0
        /\ portals[portalsByID[c]].RoomID = hsEvents[syncPos + 1].room
        /\ hsEvents[syncPos + 1].msgtype = "m.text"
        /\ hsEvents[syncPos + 1].sender # Bot)
       => /\ Len(hostexLog') = Len(hostexLog) + 1
          /\ hostexLog'[Len(hostexLog')].conv = c
          /\ hostexLog'[Len(hostexLog')].evt = syncPos + 1
          /\ hostexLog'[Len(hostexLog')].ok =>
                \E o \in storeLog' : o.hostex_id = c /\ o.evt = syncPos + 1]_vars

C10_EventIdUnique ==
  /\ [](\A i, j \in 1..Len(dbMessage) :
         dbMessage[i].matrix_event_id = dbMessage[j].matrix_event_id => i = j)
  /\ [][\A o \in storeLog' \ storeLog :
         (\E k \in 1..Len(dbMessage) : dbMessage[k].matrix_event_id = o.evt)
           => o.err /\ dbMessage' = dbMessage]_vars

\* a StoreMessage was called with an event id that was already stored
C10_Witness ==
  \E o \in storeLog : o.dup /\ o.err

\* the step of the syncing loop that hands event syncPos + 1 to the handler
Delivers(i) == pc[Syncer] = "sync" /\ i = syncPos + 1 /\ syncPos' = i

\* the events of the control room that were sent by sender
ControlEvents(events, sender) ==
  {i \in 1..Len(events) :
     events[i].room = managementRoom /\ events[i].sender = sender}

\* C11: an event of the control room whose sender is not the configured
\* admin makes the bridge send nothing, create no command dispatcher, start
\* no poll, and leaves the registry, the store and the remote as they are.
C11_NonAdminIgnored ==
  [][\A i \in 1..Len(hsEvents) :
       (/\ Delivers(i)
        /\ hsEvents[i].room = managementRoom
        /\ hsEvents[i].sender # Admin)
       => /\ hsEvents' = hsEvents
          /\ usersByMXID' = usersByMXID
          /\ pc' = pc
          /\ portals' = portals /\ portalsByID' = portalsByID
          /\ dbPortal' = dbPortal /\ dbMessage' = dbMessage
          /\ remote' = remote /\ hostexLog' = hostexLog]_vars

\* the syncing loop has handed a !sync of somebody else than the admin to the
\* handler
C11_Witness ==
  \E i \in ControlEvents(hsEvents, Guest) :
    syncPos >= i /\ hsEvents[i].body = "!sync"

\* the first token of a command body, in lower case
Issued(body) ==
  CASE body = "!SYNC now" -> "!sync"
    [] body = " " -> ""
    [] OTHER -> body

\* the text of the reply that the command table gives a first token
ReplyOf(c) ==
  CASE c = "!help" -> "help"
    [] c = "!status" -> "status"
    [] c = "!list" -> "list"

\* the notice with the given text in the room of event e
Notice(e, text) == Event(e.room, Bot, "m.notice", text, 0, 0)

\* one send of notice n: it arrives, or the send fails where calls can fail
SentOnce(n) ==
  \/ hsEvents' = Append(hsEvents, n)
  \/ faults /\ hsEvents' = hsEvents

\* the notices of the control room with one of the given texts
Notices(texts) ==
  {i \in ControlEvents(hsEvents, Bot) :
     hsEvents[i].msgtype = "m.notice" /\ hsEvents[i].body \in texts}

\* the commands of the admin with one of the given first tokens that the
\* syncing loop has handed to the handler
Handled(tokens) ==
  {i \in ControlEvents(hsEvents, Admin) :
     i <= syncPos /\ Issued(hsEvents[i].body) \in tokens}

\* C12 as stated: each of !help, !status, !list and !sync of the admin has
\* exactly one reply, so the replies to them never outnumber them.
C12_OneReplyPerCommand ==
  Cardinality(Notices({"help", "status", "list", "sync-start",
                       "sync-complete"}))
    <= Cardinality(Handled({"!help", "!status", "!list", "!sync"}))

\* C12: handling !help, !status or !list of the admin (first token in any
\* case) sends exactly one reply, of that command, into the room of the
\* command and starts nothing; handling !sync sends the starting notice into
\* that room and starts one task, and that task sends one more notice, the
\* closing one, when its poll cycle is over: two notices for one !sync.
C12_RepliesPerCommand ==
  /\ [][\A i \in ControlEvents(hsEvents, Admin) :
          Delivers(i) =>
            LET e == hsEvents[i]
                c == Issued(e.body)
            IN  /\ c \in {"!help", "!status", "!list"}
                     => /\ SentOnce(Notice(e, ReplyOf(c)))
                        /\ pc' = pc
                /\ c = "!sync"
                     => /\ SentOnce(Notice(e, "sync-start"))
                        /\ \E t \in SyncTasks :
                             /\ pc[t] = "off"
                             /\ pc' = [pc EXCEPT ![t] = "spawned"]]_vars
  /\ [][\A t \in SyncTasks :
          pc[t] = "notice" /\ pc'[t] # "notice"
            => /\ SentOnce(Event(managementRoom, Bot, "m.notice",
                                 "sync-complete", 0, 0))
               /\ pc'[t] = "off"]_vars
  /\ [](Cardinality(Notices({"sync-complete"}))
          <= Cardinality(Handled({"!sync"})))

\* one !sync of the admin, typed in capitals with an argument, has both of
\* its notices in the control room
C12_Witness ==
  /\ Handled({"!sync"}) # {}
  /\ \A i \in Handled({"!sync"}) : hsEvents[i].body = "!SYNC now"
  /\ Notices({"sync-start"}) # {}
  /\ Notices({"sync-complete"}) # {}

\* task t is inside a poll cycle
Polling(t) == pc[t] \notin {"off", "idle", "spawned", "notice", "exited"}

\* C13: the handler of !sync sends the starting notice and starts a task in
\* one step and is done, the poll cycle begins in a later step of that task;
\* the closing notice is sent by that task, and only from the point it
\* reaches when its poll cycle has returned.
C13_SyncNoticesAroundPoll ==
  /\ [][\A t \in SyncTasks :
          pc[t] = "off" /\ pc'[t] # "off"
            => /\ pc'[t] = "spawned"
               /\ \E i \in Handled({"!sync"})' :
                    /\ Delivers(i)
                    /\ SentOnce(Notice(hsEvents[i], "sync-start"))]_vars
  /\ [][\A t \in SyncTasks :
          Polling(t)' /\ ~Polling(t) => pc[t] = "spawned"]_vars
  /\ [][\A t \in SyncTasks :
          pc'[t] = "notice" /\ pc[t] # "notice"
            => \/ pc[t] = "conv" /\ convs[t] = <<>>
               \/ pc[t] = "spawned" /\ faults /\ ~Polling(t)']_vars
  /\ [][Cardinality(Notices({"sync-complete"})')
          > Cardinality(Notices({"sync-complete"}))
          => \E t \in SyncTasks : pc[t] = "notice" /\ pc'[t] = "off"]_vars

\* the only command so far is one !sync; its task is inside the poll cycle
\* and the syncing loop has meanwhile handled the starting notice, an event
\* that came after the command
C13_Witness ==
  /\ Cardinality(ControlEvents(hsEvents, Admin)) = 1
  /\ \E t \in SyncTasks : Polling(t)
  /\ \E i \in Notices({"sync-start"}) : syncPos >= i

\* C14: an admin message of the control room whose first token, in lower
\* case, is none of the four commands gets one reply, the unknown-command
\* text, sent into that room; no task starts to poll and the registry, the
\* store and the remote stay as they are.
C14_UnknownCommandReply ==
  [][\A i \in ControlEvents(hsEvents, Admin) :
       (/\ Delivers(i)
        /\ Issued(hsEvents[i].body)
             \notin {"", "!help", "!status", "!list", "!sync"})
       => /\ SentOnce(Notice(hsEvents[i], "unknown"))
          /\ pc' = pc
          /\ portals' = portals /\ portalsByID' = portalsByID
          /\ dbPortal' = dbPortal /\ dbMessage' = dbMessage
          /\ remote' = remote /\ hostexLog' = hostexLog]_vars

\* the admin's !foobar was handled and answered
C14_Witness ==
  /\ Handled({"!foobar"}) # {}
  /\ Notices({"unknown"}) # {}

\* C15: when Stop has returned, the polling loop and the syncing loop have
\* both exited, and from then on there is no poll tick, no step of a poll
\* cycle of the loop and no event handed to the handler.
C15_LoopsExitedWhenStopReturns ==
  /\ [](phase = "stopped"
          => pc[Timer] = "exited" /\ pc[Syncer] = "exited")
  /\ [][phase = "stopped"
          => /\ pc'[Timer] = pc[Timer] /\ pc'[Syncer] = pc[Syncer]
             /\ syncPos' = syncPos
             /\ convs'[Timer] = convs[Timer]
             /\ portals' = portals /\ portalsByID' = portalsByID
             /\ dbPortal' = dbPortal /\ dbMessage' = dbMessage
             /\ hsRooms' = hsRooms]_vars

\* Stop has returned after the polling loop had found a conversation, and
\* an event that nobody has handled waits in the timeline
C15_Witness ==
  /\ phase = "stopped"
  /\ portalsByID # NoPortals
  /\ syncPos < Len(hsEvents)

\* C16: once Stop is called on a running bridge, and every call in flight
\* returns, Stop returns.
C16_StopReturns == (phase = "stopping") ~> (phase = "stopped")

\* Stop has returned on a bridge whose polling loop had stored the room of a
\* conversation and whose syncing loop had handled an event
C16_Witness ==
  /\ phase = "stopped"
  /\ \E c \in ConvIDs : dbPortal[c] # NoRoom
  /\ syncPos > 0

\* C17: after Stop has returned no poll cycle is executing and none is about
\* to begin, those of the tasks of !sync included.
C17_NoPollAfterStop ==
  phase = "stopped"
    => \A t \in Tasks : ~Polling(t) /\ pc[t] # "spawned"

\* the setup messages that the bridge has sent in process run r
SetupEvents(r) ==
  {i \in 1..Len(hsEvents) :
     hsEvents[i].body = "setup" /\ hsEvents[i].run = r}

\* C18: when the control room could not be resolved, Start has returned an
\* error, neither the polling loop nor the syncing loop was started and the
\* message that the bridge is running was not sent.
C18_FailedStartStartsNothing ==
  (phase = "failed" /\ managementRoom = NoRoom)
    => /\ pc[Timer] = "off" /\ pc[Syncer] = "off"
       /\ SetupEvents(run) = {}
       /\ syncPos = 0

\* the second start of the process failed at the control room
C18_Witness ==
  phase = "failed" /\ managementRoom = NoRoom /\ run > 0

\* C19: over the starts of the process at most one control room ever
\* exists on the account.
C19_OneControlRoom ==
  Cardinality(RoomsOfKind(hsRooms, "mgmt")) <= 1

\* C20: with the grouping enabled and no call failing, a Start that finds a
\* joined room that is a space and carries the name of the space creates no
\* new space.
C20_AdoptsExistingSpace ==
  [][(/\ phase = "created" /\ phase' # "created"
      /\ PersonalSpaceEnable /\ ~faults
      /\ RoomsOfKind(hsRooms, "space") # {})
     => RoomsOfKind(hsRooms', "space") = RoomsOfKind(hsRooms, "space")]_vars

\* the remote messages stamped with a whole second: the cursor stored for
\* such a message is its timestamp, so polls that run one after another and
\* do not fail relay it once
WholeSecond == {m \in 1..Len(remote) : remote[m].ts % Res = 0}

\* C21: with the poll of the ticker and the poll of a !sync running at the
\* same time and no call failing, no remote message is relayed into its room
\* twice.
C21_NoDoubleRelayConcurrent ==
  \A m \in WholeSecond : Cardinality(Relays(m)) <= 1

\* the events that relayed a remote message in process run r and have no
\* Message row
Unrecorded(r) ==
  {i \in 1..Len(hsEvents) :
     /\ hsEvents[i].msg # 0
     /\ hsEvents[i].run = r
     /\ \A k \in 1..Len(dbMessage) : dbMessage[k].matrix_event_id # i}

Handling == {"insert", "ensure", "create", "store", "getlast", "fetch",
             "send", "record"}

\* C23: inside a poll cycle, whatever way the handling of a conversation
\* ends (room lookup, room creation, store write or backfill failing, or
\* all going well), the cycle goes on with the rest of its list; the room
\* check of CreateMatrixRoom is reached for every conversation of the list
\* and the cycle ends only when the list is used up.
C23_FailureDoesNotAbortCycle ==
  /\ [][(pc[Timer] \in Handling /\ pc'[Timer] = "conv")
          => convs'[Timer] = Tail(convs[Timer])]_vars
  /\ [][(pc[Timer] = "conv" /\ pc'[Timer] # "conv" /\ run' = run)
          => IF convs[Timer] = <<>>
               THEN pc'[Timer] = "idle"
               ELSE /\ pc'[Timer] \in {"insert", "ensure"}
                    /\ convs'[Timer] = convs[Timer]]_vars
  /\ [][(pc[Timer] = "insert" /\ pc'[Timer] # "insert" /\ run' = run)
          => /\ pc'[Timer] = "ensure"
             /\ portals'[portal'[Timer]].ID = Head(convs[Timer])]_vars
  /\ [](pc[Timer] \in Handling => convs[Timer] # <<>>)

\* the first conversation of the list was left without a room and the same
\* cycle is at the room check of the second
C23_Witness ==
  /\ pc[Timer] = "ensure"
  /\ convs[Timer] = <<ConvList[2]>>
  /\ portals[portal[Timer]].ID = ConvList[2]
  /\ portalsByID[ConvList[1]] # 0
  /\ portals[portalsByID[ConvList[1]]].RoomID = NoRoom

\* C24: when CreateRoom fails for a conversation, the handling of that
\* conversation ends there for the cycle (no cursor read, no fetch, no
\* send), its Portal stays without a room and no row is written; a later
\* cycle that finds the Portal without a room and without a stored pairing
\* goes to CreateRoom again.
C24_CreateFailureRetriedNextCycle ==
  /\ [][(/\ pc[Timer] = "create" /\ pc'[Timer] # "create"
         /\ hsRooms' = hsRooms /\ run' = run)
        => /\ pc'[Timer] = "conv"
           /\ convs'[Timer] = Tail(convs[Timer])
           /\ portals' = portals
           /\ portals[portal[Timer]].RoomID = NoRoom
           /\ dbPortal' = dbPortal /\ dbMessage' = dbMessage
           /\ hsEvents' = hsEvents]_vars
  /\ [][(/\ pc[Timer] = "ensure" /\ pc'[Timer] # "ensure" /\ run' = run
         /\ portals[portal[Timer]].RoomID = NoRoom
         /\ dbPortal[portals[portal[Timer]].ID] = NoRoom)
        => \/ pc'[Timer] = "create"
           \/ faults /\ pc'[Timer] = "conv"]_vars

\* a cycle is at CreateRoom for the first conversation although the Portal
\* of the second is registered: an earlier cycle of this process run went
\* through the list and left the first conversation without a room and
\* without a row
C24_Witness ==
  /\ pc[Timer] = "create"
  /\ portals[portal[Timer]].ID = ConvList[1]
  /\ portalsByID[ConvList[2]] # 0
  /\ dbPortal[ConvList[1]] = NoRoom
  /\ PortalRooms(ConvList[1]) = {}

\* a step of the polling loop itself, seen from a state in which it stands
\* at the send of a message: nothing of the environment moves
OwnStep ==
  /\ hsRooms' = hsRooms /\ remote' = remote /\ syncPos' = syncPos
  /\ <<pc[Timer], batch[Timer], convs[Timer], Len(hsEvents)>>'
       # <<pc[Timer], batch[Timer], convs[Timer], Len(hsEvents)>>

\* C25: when the send of a message of a batch fails, the backfill drops that
\* message and stands at the send of the next one of the same batch; the
\* backfill ends, and the cycle moves to the next conversation, only when the
\* batch is used up, with or without failed sends.
C25_SendFailureDoesNotStopBatch ==
  /\ [][(/\ pc[Timer] = "send" /\ batch[Timer] # <<>>
         /\ OwnStep /\ hsEvents' = hsEvents)
        => /\ batch'[Timer] = Tail(batch[Timer])
           /\ pc'[Timer] = "send"
           /\ convs' = convs
           /\ dbMessage' = dbMessage]_vars
  /\ [][(pc[Timer] = "send" /\ pc'[Timer] = "conv")
          => batch[Timer] = <<>> /\ convs'[Timer] = Tail(convs[Timer])]_vars

\* the second message of a batch was relayed although the send of the first
\* had failed: the first is older, newer than the cursor of that batch, and
\* was never relayed
C25_Witness ==
  \E i \in 1..Len(hsEvents) :
    /\ hsEvents[i].msg # 0
    /\ \E m \in 1..(hsEvents[i].msg - 1) :
         /\ remote[m].conv = remote[hsEvents[i].msg].conv
         /\ remote[m].ts > hsEvents[i].since
         /\ Relays(m) = {}

\* the sequence of remote messages is ascending
Ascending(b) == \A i, j \in 1..Len(b) : i < j => b[i] < b[j]

\* C26: a backfill sends the messages of its batch in the order in which
\* the remote service returned them: each relay event carries the message
\* at the head of the batch, and that message only; the batch is consumed
\* from its head; after a send the Message row is written before anything
\* else of the batch is sent.
C26_BatchSentInOrder ==
  /\ [](Ascending(batch[Timer]))
  /\ [][Len(hsEvents') > Len(hsEvents) /\ hsEvents'[Len(hsEvents')].msg # 0
          => /\ pc[Timer] = "send" /\ pc'[Timer] = "record"
             /\ hsEvents' = Append(hsEvents,
                  [room |-> portals[portal[Timer]].RoomID, sender |-> Bot,
                   msgtype |-> "m.text",
                   body |-> remote[Head(batch[Timer])].body,
                   msg |-> Head(batch[Timer]), since |-> since[Timer],
                   run |-> run])
             /\ batch' = batch]_vars
  /\ [][batch'[Timer] # batch[Timer]
          => \/ /\ pc[Timer] = "fetch"
                /\ batch'[Timer] = GetMessages(portals[portal[Timer]].ID,
                                               since[Timer], PageSize)
             \/ /\ pc[Timer] \in {"send", "record"}
                /\ batch'[Timer] = Tail(batch[Timer])]_vars
  /\ [][pc[Timer] = "record" /\ pc'[Timer] # "record"
          => /\ pc'[Timer] = "send"
             /\ hsEvents' = hsEvents
             /\ storeLog' # storeLog \/ dbMessage' # dbMessage
                  \/ \E o \in storeLog : o.evt = sentEvt[Timer]]_vars

\* both messages of a batch of two were relayed, the older one first
C26_Witness ==
  \E i, j \in 1..Len(hsEvents) :
    /\ i < j
    /\ hsEvents[i].msg # 0 /\ hsEvents[j].msg # 0
    /\ hsEvents[i].msg < hsEvents[j].msg
    /\ hsEvents[i].room = hsEvents[j].room
    /\ hsEvents[i].since = hsEvents[j].since
    /\ remote[hsEvents[i].msg].ts > hsEvents[j].since

\* the rooms that the Portals of the registry carry
RegisteredRooms ==
  {portals[portalsByID[c]].RoomID : c \in {k \in ConvIDs : portalsByID[k] # 0}}

\* C27: an event whose room is neither the control room nor the room of a
\* Portal of the registry is dropped: nothing is sent to the remote service
\* or into a room, no row is written and the registries stay as they are.
C27_UnknownRoomDropped ==
  [][\A i \in 1..Len(hsEvents) :
       (/\ Delivers(i)
        /\ hsEvents[i].room # managementRoom
        /\ hsEvents[i].room \notin RegisteredRooms)
       => /\ remote' = remote /\ hostexLog' = hostexLog
          /\ hsEvents' = hsEvents
          /\ dbPortal' = dbPortal /\ dbMessage' = dbMessage
          /\ portals' = portals /\ portalsByID' = portalsByID
          /\ usersByMXID' = usersByMXID]_vars

\* C28: only text messages are forwarded: the delivery of a message event
\* whose msgtype is not m.text causes no send to the remote service and no
\* Message row.
C28_OnlyTextForwarded ==
  [][\A i \in 1..Len(hsEvents) :
       (Delivers(i) /\ hsEvents[i].msgtype # "m.text")
       => /\ hostexLog' = hostexLog /\ remote' = remote
          /\ dbMessage' = dbMessage /\ storeLog' = storeLog]_vars

\* the Portals that the registry holds
Registered == {portalsByID[c] : c \in {k \in ConvIDs : portalsByID[k] # 0}}

\* C29: the room id that a Portal of the registry holds in memory, once set,
\* equals the room id of the Portal row of its conversation when such a row
\* exists, and no two conversations are mapped to the same room, in memory
\* or in the store.
C29_OneRoomPerConversation ==
  /\ \A p \in Registered :
       (HasRoom(p) /\ GetPortal(portals[p].ID) # NoRoom)
       => portals[p].RoomID = GetPortal(portals[p].ID)
  /\ \A p, q \in Registered :
       (HasRoom(p) /\ portals[p].ID # portals[q].ID)
       => portals[p].RoomID # portals[q].RoomID
  /\ \A c, d \in ConvIDs :
       (c # d /\ GetPortal(c) # NoRoom) => GetPortal(c) # GetPortal(d)

\* the events that the bridge sent into a room for a remote message
RelayEvents == {i \in 1..Len(hsEvents) : hsEvents[i].msg # 0}

\* C30 (first half): no event that the bridge itself sent into a room during
\* a backfill is forwarded to the remote service.
NoEchoToRemote ==
  \A k \in 1..Len(hostexLog) : hostexLog[k].evt \notin RelayEvents

\* C30 (second half): no remote message that stems from a chat event that the
\* bridge forwarded is sent into a room by a backfill.
NoEchoToRoom ==
  \A i \in RelayEvents : remote[hsEvents[i].msg].sender # "host"

\* C30: the bridge never echoes, in either direction.
C30_NeverEchoes == NoEchoToRemote /\ NoEchoToRoom

\* C31: an admin message of the control room whose body has no token (empty
\* or white space only) gets no reply and runs no command: the delivery
\* changes nothing but the position of the syncing loop and, at most, the
\* dispatcher registry, which may gain the admin's dispatcher.
C31_BlankBodyRunsNothing ==
  [][\A i \in ControlEvents(hsEvents, Admin) :
       (Delivers(i) /\ hsEvents[i].body \in {"", " "})
       => /\ hsEvents' = hsEvents
          /\ pc' = pc
          /\ usersByMXID \subseteq usersByMXID'
          /\ usersByMXID' \subseteq usersByMXID \cup {Admin}
          /\ UNCHANGED <<now, remote, hsRooms, dbPortal, dbMessage,
                         cfgVars, phase, managementRoom, spaceRoom,
                         portals, portalsByID, convs, portal, since,
                         batch, sentEvt, run, hostexLog, storeLog>>]_vars

\* the syncing loop has handed the handler an empty body and a body of white
\* space of the admin and nothing else of the admin: the dispatcher of the
\* admin is registered and the bridge has sent no notice
C31_Witness ==
  /\ \A b \in {"", " "} :
       \E i \in ControlEvents(hsEvents, Admin) :
         i <= syncPos /\ hsEvents[i].body = b
  /\ \A i \in ControlEvents(hsEvents, Admin) :
       i <= syncPos => hsEvents[i].body \in {"", " "}
  /\ Admin \in usersByMXID
  /\ Notices({"help", "unknown"}) = {}

====
